---------------------------- MODULE Spec2Model ----------------------------
(***************************************************************************)
(* A model of brusselator.py: the run coordinator (main), the per-mode    *)
(* pipeline (process_mode: solve, validate, render, encode), the          *)
(* allocation of the numbered run directory, the initialisation of the    *)
(* fields u and v under the circular mask, and the naming of the frame    *)
(* files.                                                                  *)
(*                                                                         *)
(* Four specifications share the module:                                   *)
(*   Spec       one batch: main dispatching the modes to the pool, every   *)
(*              worker running process_mode                                *)
(*   SpecRun    several invocations of main allocating their run directory *)
(*   SpecInit   lines 86-101 of process_mode: grid, fields, circular mask  *)
(*   SpecNames  frame file names and the lexical sort of the encoder       *)
(***************************************************************************)
EXTENDS Integers, Sequences, FiniteSets, TLC

VARIABLES
    \* ---- SpecInit: the initial state of one mode ----
    settings,      \* RESOLUTION, ZOOM_FACTOR (a fraction), FIXED_BOUNDARY, a, b, noise seed
    initPc,        \* "fields" -> "mask" -> "done"
    u, v,          \* the data of the two ScalarFields, [row][col]; v in units of 1/(10 a)
    circular_mask, \* the boolean array of line 95
    \* ---- SpecNames: two frames of one mode and the encoder's sorted listing ----
    namesPc,       \* "render" -> "list" -> "done"
    frame_pair,    \* <<i, j>>, i < j: the indices of two snapshots
    names_dir,     \* the file names in frames_dir
    sorted_names,  \* frame_files of line 170
    \* ---- SpecRun: invocations of main against one results root ----
    results_dir,   \* the names under results/
    runPc,         \* per invocation: "scan" -> "mkdir" -> "settings" -> "done", or "crashed"
    render_number, \* per invocation: line 218
    present,       \* per invocation: the names under results/ when its makedirs ran
    settings_by,   \* per run directory name: the invocations that wrote its settings.txt
    \* ---- Spec: one batch, main (lines 231-237) and process_mode per mode ----
    modes,         \* settings["modes"]: per mode its title and filename
    poolSize,      \* the number of worker processes of Pool()
    mainPc,        \* "dispatch" -> "close" -> "join" -> "log" -> "done"
    taskq,         \* the pool's task queue: modes submitted and not yet taken
    pc,            \* per mode: the position of its process_mode call
    result,        \* per mode: its AsyncResult: "pending", "returned" or "raised"
    storage,       \* per mode: the snapshots of MemoryStorage, TRUE for a finite one
    frame_idx,     \* per mode: the render loop's index
    size,          \* per mode: (width, height), None until a frame is read back
    frame_files,   \* per mode: the rest of the sorted listing of line 170
    out,           \* per mode: the frames written to its cv2.VideoWriter, None until opened
    fs,            \* the frame files: <<frames dir, file name>> -> [by, idx, readable]
    log,           \* processing.log: the set of <<level, mode, message>> written
    written,       \* per mode: the frame indices it saved, in order
    firstRead,     \* per mode: the outcome of the imread of line 162
    access         \* the <<mode, path>> pairs of every file a mode wrote or read

initVars == <<settings, initPc, u, v, circular_mask>>
namesVars == <<namesPc, frame_pair, names_dir, sorted_names>>
runVars == <<results_dir, runPc, render_number, present, settings_by>>

batchVars ==
    <<modes, poolSize, mainPc, taskq, pc, result, storage, frame_idx, size, frame_files,
      out, fs, log, written, firstRead, access>>

vars == <<initVars, namesVars, runVars, batchVars>>

None == "None"

(***************************************************************************)
(* IEEE-754 binary64 arithmetic.  A non-negative double is [m, e] with     *)
(* value m * 2^e, m a natural of exactly MantissaBits bits (or 0), held as *)
(* a little-endian sequence of limbs of LimbBits bits because the checker's *)
(* integers are 32 bits wide.                                              *)
(***************************************************************************)
MantissaBits == 53
LimbBits == 15
Base == 2 ^ LimbBits

Limb(x, i) == IF i <= Len(x) THEN x[i] ELSE 0

RECURSIVE Norm(_)
Norm(x) == IF x = <<>> \/ x[Len(x)] # 0 THEN x ELSE Norm(SubSeq(x, 1, Len(x) - 1))

RECURSIVE BigOfInt(_)
BigOfInt(n) == IF n = 0 THEN <<>> ELSE <<n % Base>> \o BigOfInt(n \div Base)

MaxLen(x, y) == IF Len(x) > Len(y) THEN Len(x) ELSE Len(y)

BigLt(x, y) ==
    \E i \in 1..MaxLen(x, y) :
        /\ Limb(x, i) < Limb(y, i)
        /\ \A j \in (i + 1)..MaxLen(x, y) : Limb(x, j) = Limb(y, j)

RECURSIVE BigAddC(_, _, _, _)
BigAddC(x, y, i, c) ==
    IF i > MaxLen(x, y) THEN (IF c = 0 THEN <<>> ELSE <<c>>)
    ELSE LET s == Limb(x, i) + Limb(y, i) + c
         IN  <<s % Base>> \o BigAddC(x, y, i + 1, s \div Base)

BigAdd(x, y) == BigAddC(x, y, 1, 0)

RECURSIVE BigSubB(_, _, _, _)
BigSubB(x, y, i, b) ==
    IF i > Len(x) THEN <<>>
    ELSE LET d == Limb(x, i) - Limb(y, i) - b
         IN  <<d % Base>> \o BigSubB(x, y, i + 1, IF d < 0 THEN 1 ELSE 0)

BigSub(x, y) == Norm(BigSubB(x, y, 1, 0))

RECURSIVE MulSmallC(_, _, _, _)
MulSmallC(x, s, i, c) ==
    IF i > Len(x) THEN (IF c = 0 THEN <<>> ELSE <<c>>)
    ELSE LET p == x[i] * s + c
         IN  <<p % Base>> \o MulSmallC(x, s, i + 1, p \div Base)

MulSmall(x, s) == Norm(MulSmallC(x, s, 1, 0))

ShlLimbs(x, n) == IF x = <<>> THEN <<>> ELSE [i \in 1..n |-> 0] \o x

RECURSIVE BigMulA(_, _, _)
BigMulA(x, y, i) ==
    IF i > Len(y) THEN <<>>
    ELSE BigAdd(ShlLimbs(MulSmall(x, y[i]), i - 1), BigMulA(x, y, i + 1))

BigMul(x, y) == BigMulA(x, y, 1)

RECURSIVE DivSmallR(_, _, _, _)
DivSmallR(x, s, i, r) ==
    IF i = 0 THEN <<>>
    ELSE LET t == r * Base + x[i]
         IN  DivSmallR(x, s, i - 1, t % s) \o <<t \div s>>

DivSmall(x, s) == Norm(DivSmallR(x, s, Len(x), 0))

RECURSIVE IntBitLen(_)
IntBitLen(n) == IF n = 0 THEN 0 ELSE 1 + IntBitLen(n \div 2)

BitLen(x) == IF x = <<>> THEN 0 ELSE LimbBits * (Len(x) - 1) + IntBitLen(x[Len(x)])

ShlBits(x, k) == ShlLimbs(MulSmall(x, 2 ^ (k % LimbBits)), k \div LimbBits)

ShrBits(x, k) ==
    IF k \div LimbBits >= Len(x) THEN <<>>
    ELSE DivSmall(SubSeq(x, (k \div LimbBits) + 1, Len(x)), 2 ^ (k % LimbBits))

\* bit i (0 the least significant) of x
BitAt(x, i) == (Limb(x, (i \div LimbBits) + 1) \div (2 ^ (i % LimbBits))) % 2

\* one step of binary long division: bring down bit i of the dividend x
DivStep(x, d, st, i) ==
    LET r2 == BigAdd(MulSmall(st.r, 2), BigOfInt(BitAt(x, i)))
    IN  IF BigLt(r2, d)
        THEN [q |-> MulSmall(st.q, 2), r |-> r2]
        ELSE [q |-> BigAdd(MulSmall(st.q, 2), <<1>>), r |-> BigSub(r2, d)]

\* bits hi down to lo of the dividend; halved so that the evaluation stays shallow
RECURSIVE DivRange(_, _, _, _, _)
DivRange(x, d, st, hi, lo) ==
    IF hi < lo THEN st
    ELSE IF hi = lo THEN DivStep(x, d, st, hi)
    ELSE LET mid   == (hi + lo + 1) \div 2
             upper == DivRange(x, d, st, hi, mid)
         IN  IF upper.r = upper.r THEN DivRange(x, d, upper, mid - 1, lo) ELSE upper

BigDivMod(x, d) == DivRange(x, d, [q |-> <<>>, r |-> <<>>], BitLen(x) - 1, 0)

\* one step of the binary integer square root: try to set bit i of the root
SqrtStep(x, s, i) ==
    LET c == BigAdd(s, ShlBits(<<1>>, i))
    IN  IF BigLt(x, BigMul(c, c)) THEN s ELSE c

RECURSIVE SqrtRange(_, _, _, _)
SqrtRange(x, s, hi, lo) ==
    IF hi < lo THEN s
    ELSE IF hi = lo THEN SqrtStep(x, s, hi)
    ELSE LET mid   == (hi + lo + 1) \div 2
             upper == SqrtRange(x, s, hi, mid)
         IN  IF upper = upper THEN SqrtRange(x, upper, mid - 1, lo) ELSE upper

\* floor(sqrt(x))
BigSqrt(x) == SqrtRange(x, <<>>, BitLen(x) \div 2, 0)

\* the exact value x * 2^e (plus a sticky rest) rounded to the nearest double, ties to even
RoundDouble(x, e, sticky) ==
    LET n == BitLen(x) IN
    IF n <= MantissaBits
    THEN [m |-> ShlBits(x, MantissaBits - n), e |-> e - (MantissaBits - n)]
    ELSE LET k    == n - MantissaBits
             hi   == ShrBits(x, k)
             lo   == BigSub(x, ShlBits(hi, k))
             half == ShlBits(<<1>>, k - 1)
             up   == \/ BigLt(half, lo)
                     \/ lo = half /\ (sticky \/ BitAt(hi, 0) = 1)
             r    == IF up THEN BigAdd(hi, <<1>>) ELSE hi
         IN  IF BitLen(r) > MantissaBits
             THEN [m |-> ShrBits(r, 1), e |-> e + k + 1]
             ELSE [m |-> r, e |-> e + k]

FloatOfInt(n) == RoundDouble(BigOfInt(n), 0, FALSE)

FloatDiv(x, y) ==
    LET dm == BigDivMod(ShlBits(x.m, MantissaBits + 2), y.m)
    IN  RoundDouble(dm.q, x.e - y.e - (MantissaBits + 2), dm.r # <<>>)

FloatMul(x, y) == RoundDouble(BigMul(x.m, y.m), x.e + y.e, FALSE)

\* np.sqrt of a non-negative integer
FloatSqrt(n) ==
    LET x == ShlBits(BigOfInt(n), 2 * (MantissaBits + 2))
        s == BigSqrt(x)
    IN  RoundDouble(s, 0 - (MantissaBits + 2), BigMul(s, s) # x)

FloatLeq(x, y) ==
    IF x.m = <<>> THEN TRUE
    ELSE IF y.m = <<>> THEN FALSE
    ELSE x.e < y.e \/ (x.e = y.e /\ ~BigLt(y.m, x.m))

(***************************************************************************)
(* Python strings: a str is a sequence of one-character strings.  "sup2"   *)
(* stands for the single character U+00B2 (superscript two).              *)
(***************************************************************************)
DigitChars == <<"0", "1", "2", "3", "4", "5", "6", "7", "8", "9">>
UpperChars == <<"A", "B", "C", "D", "E", "F", "G", "H", "I", "J", "K", "L", "M",
                "N", "O", "P", "Q", "R", "S", "T", "U", "V", "W", "X", "Y", "Z">>
LowerChars == <<"a", "b", "c", "d", "e", "f", "g", "h", "i", "j", "k", "l", "m",
                "n", "o", "p", "q", "r", "s", "t", "u", "v", "w", "x", "y", "z">>

Range(seq) == {seq[i] : i \in DOMAIN seq}
IndexOf(seq, c) == CHOOSE i \in DOMAIN seq : seq[i] = c

\* ord(c)
Ord(c) ==
    IF c \in Range(DigitChars) THEN 47 + IndexOf(DigitChars, c)
    ELSE IF c \in Range(UpperChars) THEN 64 + IndexOf(UpperChars, c)
    ELSE IF c \in Range(LowerChars) THEN 96 + IndexOf(LowerChars, c)
    ELSE CASE c = " " -> 32 [] c = "." -> 46 [] c = "_" -> 95 [] c = "sup2" -> 178

\* str < str: by code point at the first difference, a proper prefix first
LexLess(s, t) ==
    \E i \in 1..(Len(s) + 1) :
        /\ i <= Len(t)
        /\ \A j \in 1..(i - 1) : s[j] = t[j]
        /\ (i = Len(s) + 1 \/ Ord(s[i]) < Ord(t[i]))

\* sorted(S) for a set of str
RECURSIVE Sorted(_)
Sorted(S) ==
    IF S = {} THEN <<>>
    ELSE LET least == CHOOSE x \in S : \A y \in S \ {x} : LexLess(x, y)
         IN  <<least>> \o Sorted(S \ {least})

\* str.endswith
EndsWith(s, suffix) ==
    Len(s) >= Len(suffix) /\ SubSeq(s, Len(s) - Len(suffix) + 1, Len(s)) = suffix

\* str.lower, one character
LowerChar(c) == IF c \in Range(UpperChars) THEN LowerChars[IndexOf(UpperChars, c)] ELSE c

\* title.replace(" ", "_").lower()
NormalizeTitle(title) ==
    [i \in DOMAIN title |-> LowerChar(IF title[i] = " " THEN "_" ELSE title[i])]

\* str(n), n >= 0
RECURSIVE Str(_)
Str(n) == IF n < 10 THEN <<DigitChars[n + 1]>> ELSE Str(n \div 10) \o <<DigitChars[(n % 10) + 1]>>

\* the width of the format specification 04d
PadWidth == 4

\* f"{n:04d}": zero-padded to at least PadWidth characters
ZeroPad(n) ==
    LET d == Str(n)
    IN  IF Len(d) >= PadWidth THEN d ELSE [i \in 1..(PadWidth - Len(d)) |-> "0"] \o d

PngSuffix == <<".", "p", "n", "g">>

\* line 148: f'frame_{frame_idx:04d}.png'
FrameName(idx) == <<"f", "r", "a", "m", "e", "_">> \o ZeroPad(idx) \o PngSuffix

\* str.isdigit
IsDigit(name) == name # <<>> /\ \A i \in DOMAIN name : name[i] \in Range(DigitChars) \cup {"sup2"}

\* whether int(name) raises ValueError (name has passed isdigit)
IntRaises(name) == \E i \in DOMAIN name : name[i] \notin Range(DigitChars)

\* int(name) for a name of decimal digits
RECURSIVE ParseInt(_)
ParseInt(name) ==
    IF name = <<>> THEN 0
    ELSE 10 * ParseInt(SubSeq(name, 1, Len(name) - 1)) + IndexOf(DigitChars, name[Len(name)]) - 1

(***************************************************************************)
(* process_mode, lines 86-101: grid, fields and circular mask.            *)
(***************************************************************************)
MaxRes == 14

\* zoom_factor values of settings.json, as fractions num/den
ZoomFactors == {<<1, 1>>, <<2, 1>>, <<7, 10>>, <<3, 10>>}

ZOOM_FACTOR(s) == FloatDiv(FloatOfInt(s.zoom[1]), FloatOfInt(s.zoom[2]))

\* line 86
RADIUS(s) == FloatDiv(FloatOfInt(1), ZOOM_FACTOR(s))

Cells(s) == (0..(s.res - 1)) \X (0..(s.res - 1))

\* line 92
center(s) == <<s.res \div 2, s.res \div 2>>

\* the integer under the square root of line 94, for row y and column x
DistSq(s, y, x) ==
    (x - center(s)[2]) * (x - center(s)[2]) + (y - center(s)[1]) * (y - center(s)[1])

\* np.sqrt over every value DistSq takes on a grid of at most MaxRes + 1 cells a side
\* (no cell is farther than res \div 2 from the centre cell along an axis)
MaxOffset == (MaxRes + 1) \div 2
SqrtTable == [n \in 0..(2 * MaxOffset * MaxOffset) |-> FloatSqrt(n)]

\* line 94
dist_from_center(s, y, x) == SqrtTable[DistSq(s, y, x)]

\* line 95: RADIUS * (RESOLUTION / (2 * RADIUS))
MaskRadius(s) ==
    FloatMul(RADIUS(s), FloatDiv(FloatOfInt(s.res), FloatMul(FloatOfInt(2), RADIUS(s))))

\* line 95
CircularMask(s) ==
    LET r == MaskRadius(s)
    IN  [c \in Cells(s) |-> FloatLeq(dist_from_center(s, c[1], c[2]), r)]

\* ScalarField.random_normal: one of a few noise patterns, a value in -1..1 per cell
Noise(s, c) == ((s.seed + 2 * c[1] + c[2]) % 3) - 1

Settings ==
    [res : 1..MaxRes, zoom : ZoomFactors, fixed : BOOLEAN,
     a : {1, 2}, b : {3}, seed : {0, 1}]

IdleInit ==
    /\ settings = None /\ initPc = "idle" /\ u = <<>> /\ v = <<>> /\ circular_mask = <<>>

IdleNames ==
    /\ namesPc = "idle" /\ frame_pair = <<>> /\ names_dir = {} /\ sorted_names = <<>>

IdleRun ==
    /\ results_dir = {} /\ runPc = <<>> /\ render_number = <<>> /\ present = <<>>
    /\ settings_by = <<>>

IdleBatch ==
    /\ modes = <<>> /\ poolSize = 0 /\ mainPc = "idle" /\ taskq = <<>> /\ pc = <<>>
    /\ result = <<>> /\ storage = <<>> /\ frame_idx = <<>> /\ size = <<>>
    /\ frame_files = <<>> /\ out = <<>> /\ fs = <<>> /\ log = {} /\ written = <<>>
    /\ firstRead = <<>> /\ access = {}

InitInit ==
    /\ settings \in Settings
    /\ initPc = "fields"
    /\ u = <<>>
    /\ v = <<>>
    /\ circular_mask = <<>>
    /\ IdleNames /\ IdleRun /\ IdleBatch

\* lines 89-95
BuildFields ==
    /\ initPc = "fields"
    /\ u' = [c \in Cells(settings) |-> settings.a]
    /\ v' = [c \in Cells(settings) |-> 10 * settings.b + settings.a * Noise(settings, c)]
    /\ circular_mask' = CircularMask(settings)
    /\ initPc' = "mask"
    /\ UNCHANGED <<settings, namesVars, runVars, batchVars>>

\* lines 97-101
ApplyMask ==
    /\ initPc = "mask"
    /\ IF settings.fixed
       THEN /\ u' = [c \in Cells(settings) |-> IF circular_mask[c] THEN u[c] ELSE 0]
            /\ v' = [c \in Cells(settings) |-> IF circular_mask[c] THEN v[c] ELSE 0]
       ELSE UNCHANGED <<u, v>>
    /\ initPc' = "done"
    /\ UNCHANGED <<settings, circular_mask, namesVars, runVars, batchVars>>

NextInit == BuildFields \/ ApplyMask

SpecInit == InitInit /\ [][NextInit]_vars

\* C9: with fixed_boundary, after initialisation u and v are zero at every cell farther
\* than res/2 from the centre cell, and every cell within res/2 keeps u = a.
C9_MaskedInit ==
    (initPc = "done" /\ settings.fixed) =>
        \A c \in Cells(settings) :
            IF 4 * DistSq(settings, c[1], c[2]) > settings.res * settings.res
            THEN u[c] = 0 /\ v[c] = 0
            ELSE u[c] = settings.a

(***************************************************************************)
(* Frame file names (line 148) and the encoder's listing (line 170).      *)
(***************************************************************************)
\* snapshot indices around every change of the number of digits
FrameIndices ==
    {0, 1, 2, 9, 10, 11, 99, 100, 101, 999, 1000, 1001, 1002, 2000, 9998, 9999,
     10000, 10001, 10002}

InitNames ==
    /\ namesPc = "render"
    /\ frame_pair \in {p \in FrameIndices \X FrameIndices : p[1] < p[2]}
    /\ names_dir = {}
    /\ sorted_names = <<>>
    /\ IdleInit /\ IdleRun /\ IdleBatch

\* lines 122-149 for the two snapshots
SaveFrames ==
    /\ namesPc = "render"
    /\ names_dir' = {FrameName(frame_pair[1]), FrameName(frame_pair[2])}
    /\ namesPc' = "list"
    /\ UNCHANGED <<frame_pair, sorted_names, initVars, runVars, batchVars>>

\* line 170
ListFrames ==
    /\ namesPc = "list"
    /\ sorted_names' = Sorted({f \in names_dir : EndsWith(f, PngSuffix)})
    /\ namesPc' = "done"
    /\ UNCHANGED <<frame_pair, names_dir, initVars, runVars, batchVars>>

NextNames == SaveFrames \/ ListFrames

SpecNames == InitNames /\ [][NextNames]_vars

\* C10: the lexical sort of the frame names is the order of the frame indices: the
\* frame of the smaller index comes first in the encoder's listing.
C10_LexicalIsTemporal ==
    namesPc = "done" =>
        sorted_names = <<FrameName(frame_pair[1]), FrameName(frame_pair[2])>>

(***************************************************************************)
(* main, lines 212-229: the numbered run directory.                       *)
(***************************************************************************)
NumInvocations == 2

Invocations == 1..NumInvocations

\* names that may lie under results/ before the first invocation
InitialNames == {<<"1">>, <<"2">>, <<"0", "3">>, <<"l", "o", "g">>, <<"sup2">>}

InitRun ==
    /\ results_dir \in SUBSET InitialNames
    /\ runPc = [i \in Invocations |-> "scan"]
    /\ render_number = [i \in Invocations |-> 0]
    /\ present = [i \in Invocations |-> {}]
    /\ settings_by = [d \in {} |-> {}]
    /\ IdleInit /\ IdleNames /\ IdleBatch

RECURSIVE SetMax(_, _)
\* max(S, default=d)
SetMax(S, d) ==
    IF S = {} THEN d
    ELSE LET x == CHOOSE y \in S : TRUE
             m == SetMax(S \ {x}, d)
         IN  IF S \ {x} = {} THEN x ELSE IF x > m THEN x ELSE m

\* lines 217-218: the list comprehension raises ValueError when int() does
ScanResults(i) ==
    /\ runPc[i] = "scan"
    /\ LET numeric == {name \in results_dir : IsDigit(name)}
       IN  IF \E name \in numeric : IntRaises(name)
           THEN /\ runPc' = [runPc EXCEPT ![i] = "crashed"]
                /\ UNCHANGED render_number
           ELSE /\ render_number' =
                       [render_number EXCEPT ![i] = SetMax({ParseInt(name) : name \in numeric}, 0) + 1]
                /\ runPc' = [runPc EXCEPT ![i] = "mkdir"]
    /\ UNCHANGED <<results_dir, present, settings_by, initVars, namesVars, batchVars>>

\* lines 219-220: os.makedirs(render_dir, exist_ok=True)
MakeRunDir(i) ==
    /\ runPc[i] = "mkdir"
    /\ present' = [present EXCEPT ![i] = results_dir]
    /\ results_dir' = results_dir \cup {Str(render_number[i])}
    /\ runPc' = [runPc EXCEPT ![i] = "settings"]
    /\ UNCHANGED <<render_number, settings_by, initVars, namesVars, batchVars>>

\* line 228: write_settings_to_file opens render_dir/settings.txt with mode 'w'
WriteSettings(i) ==
    /\ runPc[i] = "settings"
    /\ LET d == Str(render_number[i])
       IN  settings_by' =
               [x \in DOMAIN settings_by \cup {d} |->
                   IF x = d
                   THEN (IF d \in DOMAIN settings_by THEN settings_by[d] ELSE {}) \cup {i}
                   ELSE settings_by[x]]
    /\ runPc' = [runPc EXCEPT ![i] = "done"]
    /\ UNCHANGED <<results_dir, render_number, present, initVars, namesVars, batchVars>>

NextRun == \E i \in Invocations : ScanResults(i) \/ MakeRunDir(i) \/ WriteSettings(i)

SpecRun == InitRun /\ [][NextRun]_vars

Allocated(i) == runPc[i] \in {"settings", "done"}

\* C4: every run directory number is positive and greater than every numeric name
\* already under results/ when the directory is made, and no two invocations use the
\* same run directory.
C4_FreshRunDir ==
    /\ \A i \in Invocations :
           Allocated(i) =>
               /\ render_number[i] > 0
               /\ \A name \in present[i] :
                      (IsDigit(name) /\ ~IntRaises(name)) => render_number[i] > ParseInt(name)
    /\ \A i, j \in Invocations :
           (i # j /\ Allocated(i) /\ Allocated(j)) => render_number[i] # render_number[j]

(***************************************************************************)
(* One batch: main, lines 231-237, and process_mode in the pool's workers. *)
(***************************************************************************)
NumModes == 2
MaxSnapshots == 3
MaxWorkers == 2

Modes == 1..NumModes

\* the mode records settings.json may list, no title twice: two of the titles give
\* the same frames directory, and two of the records name the same video file
ModeRecords ==
    {[title |-> <<"M", " ", "A">>, filename |-> <<"a", ".", "m", "p", "4">>],
     [title |-> <<"m", "_", "a">>, filename |-> <<"b", ".", "m", "p", "4">>],
     [title |-> <<"B">>,           filename |-> <<"a", ".", "m", "p", "4">>]}

\* the snapshot sequences eq.solve may leave in storage: TRUE is a finite snapshot
Snapshots == UNION {[1..n -> BOOLEAN] : n \in 0..MaxSnapshots}

\* what eq.solve does: fills storage, or raises the ValueError (or RuntimeWarning)
\* that line 115 catches
SolverOutcomes == {"solved", "ValueError"}

\* the run directory, as the root of the paths below
RenderDir == <<>>

\* line 103
FramesDir(m) == <<"f", "r", "a", "m", "e", "s", "_">> \o NormalizeTitle(modes[m].title)

\* line 148
FramePath(m, idx) == <<FramesDir(m), FrameName(idx)>>

\* line 160
VideoPath(m) == <<RenderDir, modes[m].filename>>

NoFrame == [by |-> 0, idx |-> 0, readable |-> FALSE]

\* cv2.imread: None for a missing or unreadable file
ImRead(path) == IF path \in DOMAIN fs /\ fs[path].readable THEN fs[path] ELSE NoFrame

WriteFile(path, content) ==
    [p \in DOMAIN fs \cup {path} |-> IF p = path THEN content ELSE fs[p]]

Running(m) == pc[m] \notin {"unsubmitted", "queued", "finished"}

InitBatch ==
    /\ modes \in {f \in [Modes -> ModeRecords] :
                      \A m, k \in Modes : m # k => f[m].title # f[k].title}
    /\ poolSize \in 1..MaxWorkers
    /\ mainPc = "dispatch"
    /\ taskq = <<>>
    /\ pc = [m \in Modes |-> "unsubmitted"]
    /\ result = [m \in Modes |-> "pending"]
    /\ storage = [m \in Modes |-> <<>>]
    /\ frame_idx = [m \in Modes |-> 0]
    /\ size = [m \in Modes |-> "None"]
    /\ frame_files = [m \in Modes |-> <<>>]
    /\ out = [m \in Modes |-> [open |-> FALSE, frames |-> <<>>]]
    /\ fs = <<>>
    /\ log = {}
    /\ written = [m \in Modes |-> <<>>]
    /\ firstRead = [m \in Modes |-> "unread"]
    /\ access = {}
    /\ IdleInit /\ IdleNames /\ IdleRun

idleVars == <<initVars, namesVars, runVars>>

\* line 233: apply_async for the next mode of settings["modes"]
Submit(m) ==
    /\ mainPc = "dispatch"
    /\ pc[m] = "unsubmitted"
    /\ \A k \in Modes : k < m => pc[k] # "unsubmitted"
    /\ pc' = [pc EXCEPT ![m] = "queued"]
    /\ taskq' = Append(taskq, m)
    /\ UNCHANGED <<modes, poolSize, mainPc, result, storage, frame_idx, size, frame_files,
                   out, fs, log, written, firstRead, access, idleVars>>

\* line 234
ClosePool ==
    /\ mainPc = "dispatch"
    /\ \A m \in Modes : pc[m] # "unsubmitted"
    /\ mainPc' = "join"
    /\ UNCHANGED <<modes, poolSize, taskq, pc, result, storage, frame_idx, size,
                   frame_files, out, fs, log, written, firstRead, access, idleVars>>

\* a join that returns as soon as one task has ended
JoinReadyAny == \E m \in Modes : pc[m] = "finished"

\* pool.join returns when every worker has exited: every submitted task has ended
JoinReady == \A m \in Modes : pc[m] = "finished"

\* line 235
JoinPool ==
    /\ mainPc = "join"
    /\ JoinReady
    /\ mainPc' = "log"
    /\ UNCHANGED <<modes, poolSize, taskq, pc, result, storage, frame_idx, size,
                   frame_files, out, fs, log, written, firstRead, access, idleVars>>

\* line 237
LogAllProcessed ==
    /\ mainPc = "log"
    /\ log' = log \cup {<<"INFO", 0, "All modes processed">>}
    /\ mainPc' = "done"
    /\ UNCHANGED <<modes, poolSize, taskq, pc, result, storage, frame_idx, size,
                   frame_files, out, fs, written, firstRead, access, idleVars>>

\* an idle worker of the pool takes the oldest task
TakeTask(m) ==
    /\ taskq # <<>>
    /\ m = Head(taskq)
    /\ Cardinality({k \in Modes : Running(k)}) < poolSize
    /\ taskq' = Tail(taskq)
    /\ pc' = [pc EXCEPT ![m] = "start"]
    /\ UNCHANGED <<modes, poolSize, mainPc, result, storage, frame_idx, size, frame_files,
                   out, fs, log, written, firstRead, access, idleVars>>

\* lines 67-107
StartMode(m) ==
    /\ pc[m] = "start"
    /\ log' = log \cup {<<"INFO", m, "Starting mode">>, <<"DEBUG", m, "Frames directory created">>}
    /\ pc' = [pc EXCEPT ![m] = "solve"]
    /\ UNCHANGED <<modes, poolSize, mainPc, taskq, result, storage, frame_idx, size,
                   frame_files, out, fs, written, firstRead, access, idleVars>>

\* the worker's task ends: the return value or the exception goes to the AsyncResult
EndTask(m, how) ==
    /\ pc' = [pc EXCEPT ![m] = "finished"]
    /\ result' = [result EXCEPT ![m] = how]

\* line 110, with the handler of lines 115-117 for an exception of eq.solve
Solve(m) ==
    /\ pc[m] = "solve"
    /\ \E outcome \in SolverOutcomes :
           CASE outcome = "solved" ->
                    /\ \E snaps \in Snapshots : storage' = [storage EXCEPT ![m] = snaps]
                    /\ pc' = [pc EXCEPT ![m] = "validate"]
                    /\ UNCHANGED <<result, log>>
             [] outcome = "ValueError" ->
                    /\ log' = log \cup {<<"ERROR", m, "Warning or error encountered">>}
                    /\ EndTask(m, "returned")
                    /\ UNCHANGED storage
    /\ UNCHANGED <<modes, poolSize, mainPc, taskq, frame_idx, size, frame_files, out, fs,
                   written, firstRead, access, idleVars>>

\* a scan that looks at the first snapshot only
FirstInvalidHeadOnly(snaps) == IF snaps # <<>> /\ ~snaps[1] THEN 1 ELSE 0

\* lines 111-112: the index of the first snapshot check_for_invalid_values rejects, or 0
FirstInvalid(snaps) ==
    IF \A k \in DOMAIN snaps : snaps[k] THEN 0
    ELSE CHOOSE k \in DOMAIN snaps : ~snaps[k] /\ \A j \in 1..(k - 1) : snaps[j]

\* lines 111-119
Validate(m) ==
    /\ pc[m] = "validate"
    /\ IF FirstInvalid(storage[m]) # 0
       THEN /\ log' = log \cup {<<"ERROR", m, "Invalid values encountered">>,
                                <<"DEBUG", m, "Debug info">>,
                                <<"ERROR", m, "Warning or error encountered">>}
            /\ EndTask(m, "returned")
       ELSE /\ pc' = [pc EXCEPT ![m] = "render"]
            /\ UNCHANGED <<result, log>>
    /\ UNCHANGED <<modes, poolSize, mainPc, taskq, storage, frame_idx, size, frame_files,
                   out, fs, written, firstRead, access, idleVars>>

\* a render loop that stops one snapshot early
HasNextSnapshotShort(m) == frame_idx[m] + 1 < Len(storage[m])

\* line 122: whether enumerate(storage_dict) has another snapshot
HasNextSnapshot(m) == frame_idx[m] < Len(storage[m])

\* lines 122-156: one pass of the render loop; the file written may be unreadable
RenderFrame(m) ==
    /\ pc[m] = "render"
    /\ HasNextSnapshot(m)
    /\ \E readable \in BOOLEAN :
           /\ fs' = WriteFile(FramePath(m, frame_idx[m]),
                              [by |-> m, idx |-> frame_idx[m], readable |-> readable])
           /\ size' = [size EXCEPT ![m] = IF @ = "None" /\ readable THEN "shape" ELSE @]
    /\ written' = [written EXCEPT ![m] = Append(@, frame_idx[m])]
    /\ access' = access \cup {<<m, FramePath(m, frame_idx[m])>>}
    /\ log' = log \cup {<<"INFO", m, "Saved frame">>}
    /\ frame_idx' = [frame_idx EXCEPT ![m] = @ + 1]
    /\ UNCHANGED <<modes, poolSize, mainPc, taskq, pc, result, storage, frame_files, out,
                   firstRead, idleVars>>

\* lines 158-160: the loop is over
FinishRender(m) ==
    /\ pc[m] = "render"
    /\ ~HasNextSnapshot(m)
    /\ log' = log \cup {<<"INFO", m, "Finished processing mode">>}
    /\ pc' = [pc EXCEPT ![m] = "first_frame"]
    /\ UNCHANGED <<modes, poolSize, mainPc, taskq, result, storage, frame_idx, size,
                   frame_files, out, fs, written, firstRead, access, idleVars>>

\* a check of the first frame that never fails
FirstFrameNeverMissing(frame) == FALSE

\* line 163
FirstFrameMissing(frame) == frame = NoFrame

\* lines 162-166: the ValueError of line 164 is raised outside the try block
ReadFirstFrame(m) ==
    /\ pc[m] = "first_frame"
    /\ access' = access \cup {<<m, FramePath(m, 0)>>}
    /\ IF FirstFrameMissing(ImRead(FramePath(m, 0)))
       THEN /\ firstRead' = [firstRead EXCEPT ![m] = "missing"]
            /\ EndTask(m, "raised")
            /\ UNCHANGED size
       ELSE /\ firstRead' = [firstRead EXCEPT ![m] = "ok"]
            /\ size' = [size EXCEPT ![m] = "shape"]
            /\ pc' = [pc EXCEPT ![m] = "open"]
            /\ UNCHANGED result
    /\ UNCHANGED <<modes, poolSize, mainPc, taskq, storage, frame_idx, frame_files, out,
                   fs, log, written, idleVars>>

\* line 168
OpenWriter(m) ==
    /\ pc[m] = "open"
    /\ out' = [out EXCEPT ![m] = [open |-> TRUE, frames |-> <<>>]]
    /\ access' = access \cup {<<m, VideoPath(m)>>}
    /\ pc' = [pc EXCEPT ![m] = "list"]
    /\ UNCHANGED <<modes, poolSize, mainPc, taskq, result, storage, frame_idx, size,
                   frame_files, fs, log, written, firstRead, idleVars>>

\* line 170
ListFrameFiles(m) ==
    /\ pc[m] = "list"
    /\ frame_files' =
           [frame_files EXCEPT ![m] =
               Sorted({p[2] : p \in {q \in DOMAIN fs :
                                        q[1] = FramesDir(m) /\ EndsWith(q[2], PngSuffix)}})]
    /\ pc' = [pc EXCEPT ![m] = "encode"]
    /\ UNCHANGED <<modes, poolSize, mainPc, taskq, result, storage, frame_idx, size, out,
                   fs, log, written, firstRead, access, idleVars>>

\* lines 173-175: whether the frame read is skipped
SkipFrame(frame) == frame = NoFrame

\* lines 171-176: one pass of the encode loop
EncodeFrame(m) ==
    /\ pc[m] = "encode"
    /\ frame_files[m] # <<>>
    /\ LET path  == <<FramesDir(m), Head(frame_files[m])>>
           frame == ImRead(path)
       IN  /\ access' = access \cup {<<m, path>>}
           /\ IF SkipFrame(frame)
              THEN /\ log' = log \cup {<<"WARNING", m, "Error reading frame">>}
                   /\ UNCHANGED out
              ELSE /\ out' = [out EXCEPT ![m].frames = Append(@, frame)]
                   /\ UNCHANGED log
    /\ frame_files' = [frame_files EXCEPT ![m] = Tail(@)]
    /\ UNCHANGED <<modes, poolSize, mainPc, taskq, pc, result, storage, frame_idx, size,
                   fs, written, firstRead, idleVars>>

\* lines 178-179
ReleaseWriter(m) ==
    /\ pc[m] = "encode"
    /\ frame_files[m] = <<>>
    /\ log' = log \cup {<<"INFO", m, "Video saved">>}
    /\ EndTask(m, "returned")
    /\ UNCHANGED <<modes, poolSize, mainPc, taskq, storage, frame_idx, size, frame_files,
                   out, fs, written, firstRead, access, idleVars>>

ProcessMode(m) ==
    \/ StartMode(m) \/ Solve(m) \/ Validate(m) \/ RenderFrame(m) \/ FinishRender(m)
    \/ ReadFirstFrame(m) \/ OpenWriter(m) \/ ListFrameFiles(m) \/ EncodeFrame(m)
    \/ ReleaseWriter(m)

Next ==
    \/ \E m \in Modes : Submit(m)
    \/ ClosePool
    \/ JoinPool
    \/ LogAllProcessed
    \/ \E m \in Modes : TakeTask(m)
    \/ \E m \in Modes : ProcessMode(m)

Init == InitBatch

Spec == Init /\ [][Next]_vars

(***************************************************************************)
(* The claims about one batch.                                             *)
(***************************************************************************)
HasNonFinite(m) == \E k \in DOMAIN storage[m] : ~storage[m][k]

VideoSaved(m) == <<"INFO", m, "Video saved">> \in log

\* the modes whose process_mode call is past the render loop
PastRender(m) ==
    \/ pc[m] \in {"first_frame", "open", "list", "encode"}
    \/ pc[m] = "finished" /\ firstRead[m] # "unread"

\* C1: a mode one of whose snapshots is not finite ends before rendering, wherever the
\* snapshot lies: it saves no frame, opens no video writer and touches no file.
C1_NonFiniteAborts ==
    \A m \in Modes :
        (HasNonFinite(m) /\ pc[m] # "validate") =>
            /\ pc[m] = "finished"
            /\ result[m] = "returned"
            /\ written[m] = <<>>
            /\ ~out[m].open
            /\ \A a \in access : a[1] # m

\* a mode aborted on its last snapshot, the earlier ones finite, beside a rendering sibling
C1_Witness ==
    \E m, k \in Modes :
        /\ pc[m] = "finished"
        /\ Len(storage[m]) = MaxSnapshots
        /\ FirstInvalid(storage[m]) = MaxSnapshots
        /\ written[k] # <<>>

\* C2: the render loop of a mode whose snapshots are all finite saves the frame indices
\* 0..n-1, each once and in order, n the number of snapshots, and every file is there.
C2_OneFramePerSnapshot ==
    \A m \in Modes :
        /\ pc[m] = "render" => written[m] = [k \in 1..frame_idx[m] |-> k - 1]
        /\ PastRender(m) =>
               /\ written[m] = [k \in 1..Len(storage[m]) |-> k - 1]
               /\ \A k \in 1..Len(storage[m]) : FramePath(m, k - 1) \in DOMAIN fs

\* a mode of MaxSnapshots snapshots is past its render loop
C2_Witness ==
    \E m \in Modes : PastRender(m) /\ Len(storage[m]) = MaxSnapshots

\* the readable PNG files of the frames directory of mode m
ReadablePngs(m) ==
    {p \in DOMAIN fs : p[1] = FramesDir(m) /\ EndsWith(p[2], PngSuffix) /\ fs[p].readable}

\* C3: at the step that completes the encode of a mode, its video holds exactly the
\* readable PNG files of the mode's frames directory, each once.
C3_VideoHasReadableFrames ==
    [][\A m \in Modes :
          (pc[m] = "encode" /\ pc'[m] = "finished") =>
              /\ Len(out'[m].frames) = Cardinality(ReadablePngs(m))'
              /\ \A p \in ReadablePngs(m)' :
                     Cardinality({k \in DOMAIN out'[m].frames : out'[m].frames[k] = fs'[p]}) = 1
      ]_vars

SharesFramesDir(m) == \E k \in Modes : k # m /\ FramesDir(k) = FramesDir(m)

\* the statement of C3 for the modes whose frames directory no other mode uses
C3_UnsharedDirectory ==
    \A m \in Modes :
        (pc[m] = "finished" /\ out[m].open /\ ~SharesFramesDir(m)) =>
            /\ Len(out[m].frames) = Cardinality(ReadablePngs(m))
            /\ \A p \in ReadablePngs(m) :
                   Cardinality({k \in DOMAIN out[m].frames : out[m].frames[k] = fs[p]}) = 1

\* C5: main submits every mode before it waits, logs "All modes processed" only
\* after every mode's task has ended, and no outcome of a mode leaves a sibling or
\* main unable to go on: with no task under way, the batch can stop only with main done.
C5_JoinWaitsForAll ==
    /\ mainPc \in {"join", "log", "done"} => \A m \in Modes : pc[m] # "unsubmitted"
    /\ mainPc \in {"log", "done"} => \A m \in Modes : pc[m] = "finished"
    /\ <<"INFO", 0, "All modes processed">> \in log => \A m \in Modes : pc[m] = "finished"
    /\ (\A m \in Modes : ~Running(m)) => (ENABLED Next \/ mainPc = "done")

\* the batch is complete with one mode raised and another one's video saved
C5_Witness ==
    /\ mainPc = "done"
    /\ \E m, k \in Modes : result[m] = "raised" /\ VideoSaved(k)

Failed(m) == pc[m] = "finished" /\ ~VideoSaved(m)

\* C6: when the batch is complete the log holds an error entry for every mode that
\* ended without its video.
C6_EveryFailureLogged ==
    mainPc = "done" =>
        \A m \in Modes : Failed(m) => \E e \in log : e[1] = "ERROR" /\ e[2] = m

\* C7: no path is written or read by two modes, and every frame in a mode's video is a
\* frame that mode rendered.
C7_ModesIsolated ==
    /\ \A a1, a2 \in access : a1[2] = a2[2] => a1[1] = a2[1]
    /\ \A m \in Modes : \A k \in DOMAIN out[m].frames : out[m].frames[k].by = m

\* C8: a mode that finds no readable frame_0000.png at line 162 ends there with the
\* exception of line 164; such a mode never opens a video writer, never touches its
\* video file and never logs "Video saved", and only a mode that found the frame does.
C8_MissingFirstFrameFails ==
    [][\A m \in Modes :
          /\ (pc[m] = "first_frame" /\ pc'[m] # "first_frame"
                 /\ ImRead(FramePath(m, 0)) = NoFrame) =>
                 /\ firstRead'[m] = "missing"
                 /\ pc'[m] = "finished"
                 /\ result'[m] = "raised"
          /\ firstRead'[m] = "missing" =>
                 /\ pc'[m] = "finished"
                 /\ result'[m] = "raised"
                 /\ ~out'[m].open
                 /\ ~VideoSaved(m)'
                 /\ <<m, VideoPath(m)'>> \notin access'
          /\ (out'[m].open \/ VideoSaved(m)') => firstRead'[m] = "ok"
      ]_vars

\* a mode of zero snapshots has failed on its first frame while a sibling's video is saved
C8_Witness ==
    \E m, k \in Modes :
        /\ storage[m] = <<>>
        /\ firstRead[m] = "missing"
        /\ pc[m] = "finished"
        /\ VideoSaved(k)
=============================================================================
